---- MODULE Spec2Model ----
(***************************************************************************)
(* Model of src/ai-verifier/god_ai_verifier.py: class GodAIVerifier.        *)
(*                                                                         *)
(* Numbers.  Every Python float of the program is a fixed-point integer in *)
(* units of 1/30000 (Fx(850) is 0.85).  The unit makes the two divisions   *)
(* of the program exact on the values used here: the mean of three         *)
(* thousandths (/ 3.0) and the 0.6 / 0.4 weighting (tenths).  The         *)
(* arithmetic is therefore that of the reals, not of IEEE doubles.         *)
(*                                                                         *)
(* Strings.  A Python str is a TLA+ string.  Where the program formats a   *)
(* value (str(int), str(float), isoformat, json.dump) the text is built    *)
(* character by character as a sequence and then joined; json.load parses  *)
(* the sequences back.                                                     *)
(***************************************************************************)
EXTENDS Integers, Sequences, FiniteSets, TLC

VARIABLES
    NOVA_AVAILABLE,        \* module flag set by the nova_blocks import
    interface,             \* self.interface
    quantum_simulator,     \* self.quantum_simulator
    material_analyzer,     \* self.material_analyzer
    verification_history,  \* self.verification_history
    disk,                  \* the file system: file name -> file state
    saved,                 \* file name -> the history when the file was last saved
    now,                   \* the clock read by datetime.utcnow()
    calls,                 \* number of verify_metal_properties calls made
    frame                  \* the last verify_metal_properties call: locals, return value

vars == <<NOVA_AVAILABLE, interface, quantum_simulator,
          material_analyzer, verification_history, disk, saved, now, calls,
          frame>>

----------------------------------------------------------------------------
(* Bounds of the model.                                                    *)

MaxCalls == 2
MaxClock == 1

----------------------------------------------------------------------------
(* Fixed-point numbers and the program's numeric literals.                 *)

\* 3 for the mean of three readings, 10 for the weights in tenths, 1000 for
\* readings given in thousandths
Unit == 3 * 10 * 1000
Fx(thousandths) == thousandths * (Unit \div 1000)

Abs(x) == IF x < 0 THEN -x ELSE x

None == "None"

\* Module flag set by the numpy import.  The signature of
\* verify_metal_properties (line 68) names np.ndarray, an annotation that is
\* evaluated when the method is defined: without numpy the class body raises
\* NameError and no verifier exists, so every verifier was built with the
\* flag true.
NUMPY_AVAILABLE == TRUE

GOLD_DENSITY == Fx(19300)
SILVER_DENSITY == Fx(10500)
DENSITY_TOLERANCE == Fx(1000)
PURITY_TOLERANCE == Fx(50)
\* a variant with a lower mock reading
MOCK_AI_CONFIDENCE_low == Fx(580)
MOCK_AI_CONFIDENCE == Fx(850)
MOCK_CONDUCTIVITY == Fx(900)
MOCK_STABILITY == Fx(900)
MOCK_ENTANGLEMENT == Fx(800)
THRESHOLD == Fx(800)
AI_WEIGHT_TENTHS == 6
QUANTUM_WEIGHT_TENTHS == 4

----------------------------------------------------------------------------------------------------------------------------------------
(* Strings: str(int), str(float), datetime.isoformat().  A text is first   *)
(* built as a sequence of characters, then joined into a string.           *)

DigitChars == <<"0", "1", "2", "3", "4", "5", "6", "7", "8", "9">>

RECURSIVE Join(_)
Join(chars) == IF Len(chars) = 0 THEN "" ELSE Head(chars) \o Join(Tail(chars))

RECURSIVE NatChars(_)
NatChars(n) ==
    IF n < 10 THEN <<DigitChars[n + 1]>>
    ELSE NatChars(n \div 10) \o <<DigitChars[(n % 10) + 1]>>

\* n printed in exactly w digits, zero padded on the left
RECURSIVE PadChars(_, _)
PadChars(n, w) ==
    IF w = 0 THEN <<>>
    ELSE PadChars(n \div 10, w - 1) \o <<DigitChars[(n % 10) + 1]>>

RECURSIVE StripZeros(_)
StripZeros(s) ==
    IF Len(s) > 1 /\ s[Len(s)] = "0" THEN StripZeros(SubSeq(s, 1, Len(s) - 1))
    ELSE s

\* repr(x) of a non-negative float: the integer part, a point and the
\* shortest fraction that reads back as x, at least one digit
\* (100.0 -> "100.0", 0.999 -> "0.999").  Six decimals separate any two
\* fixed-point values, as repr's 17 significant digits separate two doubles.
\* (micro is (x % Unit) * 10^6 / Unit, the fraction reduced by 10^4 to stay
\* within 32-bit integers.)
FloatChars(x) ==
    LET micro == ((x % Unit) * 100) \div (Unit \div 10000)
    IN  NatChars(x \div Unit) \o <<".">> \o StripZeros(PadChars(micro, 6))

\* str(n) of an int, str(x) of a float
NatStr(n) == Join(NatChars(n))
FloatStr(x) == Join(FloatChars(x))

RECURSIVE ParseNat(_)
ParseNat(s) ==
    IF Len(s) = 0 THEN 0
    ELSE LET d == CHOOSE k \in 0..9 : DigitChars[k + 1] = s[Len(s)]
         IN  10 * ParseNat(SubSeq(s, 1, Len(s) - 1)) + d

RECURSIVE PadRight(_, _)
PadRight(s, w) == IF Len(s) >= w THEN s ELSE PadRight(s \o <<"0">>, w)

\* float(s) for s as written by FloatChars: the nearest representable value
ParseFloat(s) ==
    LET dot == CHOOSE i \in 1..Len(s) : s[i] = "."
        micro == ParseNat(PadRight(SubSeq(s, dot + 1, Len(s)), 6))
    IN  ParseNat(SubSeq(s, 1, dot - 1)) * Unit
        + (micro * (Unit \div 10000) + 50) \div 100

\* the clock counts half seconds from 1970-01-01T00:00:00; isoformat()
\* omits the fraction when the microsecond field is 0
IsoFormat(t) ==
    LET sec == t \div 2
        us == (t % 2) * 500000
    IN  "1970-01-01T00:00:" \o Join(PadChars(sec % 60, 2)) \o
        (IF us = 0 THEN "" ELSE "." \o Join(PadChars(us, 6)))

\* hashlib.sha256(data).hexdigest(): a deterministic, collision-free,
\* never-empty image of the message
Sha256Hex(data) == "sha256:" \o data

----------------------------------------------------------------------------
(* Construction: __init__ and _initialize_nova_interface.                  *)

EmptyDict == [k \in {} |-> 0]

\* where the body of _initialize_nova_interface may raise; "nowhere" also
\* stands for connect() or quantum_initialize() returning False, which only
\* prints
FailPoints == {"interface", "simulator", "analyzer", "connect",
               "quantum_initialize", "nowhere"}

NoNova == [interface |-> None, quantum_simulator |-> None,
           material_analyzer |-> None]

\* a variant that builds the simulator and the analyzer before the interface
InitializeNovaInterface_reordered(failAt) ==
    LET s0 == [interface |-> None, quantum_simulator |-> None,
               material_analyzer |-> None]
        s1 == [s0 EXCEPT !.quantum_simulator = "BlackwellQuantumSimulator"]
        s2 == [s1 EXCEPT !.material_analyzer = "BlackwellMaterialAnalyzer"]
        s3 == [s2 EXCEPT !.interface = "AIEmbeddedGoldInterface"]
    IN  CASE failAt = "simulator" -> s0
          [] failAt = "analyzer" -> s1
          [] failAt = "interface" -> s2
          [] OTHER -> s3

\* the three fields after the try block, when the step failAt raises
InitializeNovaInterface(failAt) ==
    LET s0 == NoNova
        s1 == [s0 EXCEPT !.interface = "AIEmbeddedGoldInterface"]
        s2 == [s1 EXCEPT !.quantum_simulator = "BlackwellQuantumSimulator"]
        s3 == [s2 EXCEPT !.material_analyzer = "BlackwellMaterialAnalyzer"]
    IN  CASE failAt = "interface" -> s0
          [] failAt = "simulator" -> s1
          [] failAt = "analyzer" -> s2
          [] OTHER -> s3

Construct(nova, failAt) ==
    IF nova THEN InitializeNovaInterface(failAt) ELSE NoNova

----------------------------------------------------------------------------
(* verify_metal_properties.                                                *)

\* lines 83-94
InitialResult(metal_type, weight, purity, t) ==
    [verified |-> FALSE,
     confidence |-> 0,
     metal_type |-> metal_type,
     weight |-> weight,
     purity |-> purity,
     verification_id |-> "",
     timestamp |-> IsoFormat(t),
     ai_analysis |-> EmptyDict,
     quantum_verification |-> EmptyDict,
     blockchain_ready |-> FALSE]

ExpectedDensity(metal_type) ==
    IF metal_type = 1 THEN GOLD_DENSITY ELSE SILVER_DENSITY

DensityMatch(analysis, metal_type) ==
    Abs(analysis["density"] - ExpectedDensity(metal_type)) < DENSITY_TOLERANCE

PurityMatch(analysis, purity) ==
    Abs(analysis["purity"] - purity) < PURITY_TOLERANCE

\* the keys the analyzer branch reads, in the order it reads them
AnalysisKeys == <<"density", "purity", "ai_embedded_efficiency",
                  "thermal_stability", "neural_interface_strength">>

\* the first key of keys that dict lacks, or None
FirstMissing(dict, keys) ==
    IF \A i \in 1..Len(keys) : keys[i] \in DOMAIN dict THEN None
    ELSE keys[CHOOSE i \in 1..Len(keys) :
                 /\ keys[i] \notin DOMAIN dict
                 /\ \A j \in 1..(i - 1) : keys[j] \in DOMAIN dict]

\* str(KeyError(key))
KeyError(key) == "'" \o key \o "'"

Unset == "unset"

\* lines 102-128.  aout is what analyze_material_properties does: it raises,
\* or returns a dictionary.  The outcome carries the record so far, the two
\* local flags, and the text of the exception raised (None: none).
AIAnalysis(r, analyzer, sensor_data, metal_type, purity, aout) ==
    IF analyzer # None /\ sensor_data # None
    THEN IF aout.raises
         THEN [result |-> r, error |-> aout.text, analyzed |-> TRUE,
               density_match |-> Unset, purity_match |-> Unset]
         ELSE LET analysis == aout.value
                  r1 == [r EXCEPT !.ai_analysis = analysis]
                  missing == FirstMissing(analysis, AnalysisKeys)
                  dm == IF "density" \in DOMAIN analysis
                        THEN DensityMatch(analysis, metal_type) ELSE Unset
                  pm == IF missing \notin {"density", "purity"}
                        THEN PurityMatch(analysis, purity) ELSE Unset
              IN  IF missing # None
                  THEN [result |-> r1, error |-> KeyError(missing),
                        analyzed |-> TRUE,
                        density_match |-> dm, purity_match |-> pm]
                  ELSE LET ai_confidence ==
                               (analysis["ai_embedded_efficiency"]
                                + analysis["thermal_stability"]
                                + analysis["neural_interface_strength"]) \div 3
                       IN  [result |-> r1 @@ ("ai_confidence" :> ai_confidence),
                            error |-> None, analyzed |-> TRUE,
                            density_match |-> dm, purity_match |-> pm]
    ELSE [result |->
              [r EXCEPT !.ai_analysis =
                  [conductivity |-> MOCK_CONDUCTIVITY,
                   density |-> ExpectedDensity(metal_type),
                   purity |-> purity,
                   ai_embedded_efficiency |-> MOCK_AI_CONFIDENCE]]
              @@ ("ai_confidence" :> MOCK_AI_CONFIDENCE),
          error |-> None, analyzed |-> FALSE,
          density_match |-> TRUE, purity_match |-> TRUE]

\* lines 130-150.  qout is what interface.quantum_compute does; quantum_input
\* is handed to it and kept nowhere.
QuantumVerification(r, simulator, iface, qout) ==
    IF simulator # None
    THEN IF iface = None
         THEN [result |-> r,
               error |-> "'NoneType' object has no attribute 'quantum_compute'"]
         ELSE IF qout.raises
         THEN [result |-> r, error |-> qout.text]
         ELSE LET quantum_result == qout.value
                  r1 == [r EXCEPT !.quantum_verification = quantum_result]
              IN  IF "result" \notin DOMAIN quantum_result
                  THEN [result |-> r1, error |-> KeyError("result")]
                  ELSE IF "stability" \notin DOMAIN quantum_result["result"]
                  THEN [result |-> r1, error |-> KeyError("stability")]
                  ELSE [result |->
                            r1 @@ ("quantum_confidence" :>
                                       quantum_result["result"]["stability"]),
                        error |-> None]
    ELSE [result |->
              [r EXCEPT !.quantum_verification =
                  [result |-> [stability |-> MOCK_STABILITY,
                               entanglement_measure |-> MOCK_ENTANGLEMENT],
                   blackwell_accelerated |-> FALSE]]
              @@ ("quantum_confidence" :> MOCK_STABILITY),
          error |-> None]

\* a variant with the two weights exchanged
OverallConfidence_swapped(ai_confidence, quantum_confidence) ==
    (ai_confidence * 4 + quantum_confidence * 6) \div 10

\* lines 153-159
OverallConfidence(ai_confidence, quantum_confidence) ==
    (ai_confidence * AI_WEIGHT_TENTHS
     + quantum_confidence * QUANTUM_WEIGHT_TENTHS) \div 10

\* a variant whose threshold is inclusive
AboveThreshold_inclusive(overall_confidence) ==
    overall_confidence >= Fx(800)

\* line 162
AboveThreshold(overall_confidence) == overall_confidence > THRESHOLD

\* line 166
DataToHash(metal_type, weight, purity, timestamp) ==
    NatStr(metal_type) \o FloatStr(weight) \o FloatStr(purity) \o timestamp

\* a variant that marks every record ready for the blockchain
MintIdentifier_unconditional(r, metal_type, weight, purity) ==
    [r EXCEPT !.verification_id =
                  IF r.verified
                  THEN Sha256Hex(DataToHash(metal_type, weight, purity,
                                            r.timestamp))
                  ELSE "",
              !.blockchain_ready = TRUE]

\* lines 164-171
MintIdentifier(r, metal_type, weight, purity) ==
    IF r.verified
    THEN [r EXCEPT !.verification_id =
                       Sha256Hex(DataToHash(metal_type, weight, purity,
                                            r.timestamp)),
                   !.blockchain_ready = TRUE]
    ELSE r

\* lines 152-171
Decide(r, metal_type, weight, purity) ==
    LET overall_confidence ==
            OverallConfidence(r.ai_confidence, r.quantum_confidence)
        r1 == [r EXCEPT !.confidence = overall_confidence,
                        !.verified = AboveThreshold(overall_confidence)]
    IN  MintIdentifier(r1, metal_type, weight, purity)

\* a variant that puts the newest record first
LogVerification_front(history, r) == <<r>> \o history

\* line 174
LogVerification(history, r) == Append(history, r)

\* a variant that also logs the failed record
HandleException_logged(r, text, history) ==
    [result |-> r @@ ("error" :> text),
     history |-> Append(history, r @@ ("error" :> text))]

\* lines 176-180: the record returned and the history, which the handler
\* leaves alone
HandleException(r, text, history) ==
    [result |-> r @@ ("error" :> text), history |-> history]

\* the whole call: the record returned, the history after it, and the
\* locals of the call
VerifyMetalProperties(self, numpy, history, metal_type, weight, purity, sensor_arg, aout, qout, t) ==
    LET r0 == InitialResult(metal_type, weight, purity, t)
        sensor_data == IF sensor_arg = None /\ numpy THEN "ndarray"
                       ELSE sensor_arg
        a == AIAnalysis(r0, self.material_analyzer, sensor_data, metal_type,
                        purity, aout)
        q == QuantumVerification(a.result, self.quantum_simulator,
                                 self.interface, qout)
        locals == [analyzed |-> a.analyzed,
                   density_match |-> a.density_match,
                   purity_match |-> a.purity_match]
    IN  IF a.error # None
        THEN LET h == HandleException(a.result, a.error, history)
             IN  [result |-> h.result, history |-> h.history,
                  raised |-> TRUE, locals |-> locals]
        ELSE IF q.error # None
        THEN LET h == HandleException(q.result, q.error, history)
             IN  [result |-> h.result, history |-> h.history,
                  raised |-> TRUE, locals |-> locals]
        ELSE LET r == Decide(q.result, metal_type, weight, purity)
             IN  [result |-> r, history |-> LogVerification(history, r),
                  raised |-> FALSE, locals |-> locals]

----------------------------------------------------------------------------
(* The log file: json.dump and json.load.  A document is the list of its   *)
(* objects; every value of an object is the text json.dump writes for it.  *)

BoolText(b) == IF b THEN "true" ELSE "false"
ParseBool(s) == s = "true"

\* a string between its quotes
Quote(s) == <<"\"", s, "\"">>
Unquote(q) == q[2]

\* a dictionary whose values are all floats
FloatDictText(d) == [k \in DOMAIN d |-> FloatChars(d[k])]
ParseFloatDict(d) == [k \in DOMAIN d |-> ParseFloat(d[k])]

\* quantum_verification: {"result": {floats}, "blackwell_accelerated": bool}
QuantumText(d) ==
    [k \in DOMAIN d |->
        IF k = "result" THEN FloatDictText(d[k]) ELSE BoolText(d[k])]
ParseQuantum(d) ==
    [k \in DOMAIN d |->
        IF k = "result" THEN ParseFloatDict(d[k]) ELSE ParseBool(d[k])]

JsonObject(r) ==
    [verified |-> BoolText(r.verified),
     confidence |-> FloatChars(r.confidence),
     metal_type |-> NatChars(r.metal_type),
     weight |-> FloatChars(r.weight),
     purity |-> FloatChars(r.purity),
     verification_id |-> Quote(r.verification_id),
     timestamp |-> Quote(r.timestamp),
     ai_analysis |-> FloatDictText(r.ai_analysis),
     quantum_verification |-> QuantumText(r.quantum_verification),
     blockchain_ready |-> BoolText(r.blockchain_ready),
     ai_confidence |-> FloatChars(r.ai_confidence),
     quantum_confidence |-> FloatChars(r.quantum_confidence)]

ParseObject(o) ==
    [verified |-> ParseBool(o.verified),
     confidence |-> ParseFloat(o.confidence),
     metal_type |-> ParseNat(o.metal_type),
     weight |-> ParseFloat(o.weight),
     purity |-> ParseFloat(o.purity),
     verification_id |-> Unquote(o.verification_id),
     timestamp |-> Unquote(o.timestamp),
     ai_analysis |-> ParseFloatDict(o.ai_analysis),
     quantum_verification |-> ParseQuantum(o.quantum_verification),
     blockchain_ready |-> ParseBool(o.blockchain_ready),
     ai_confidence |-> ParseFloat(o.ai_confidence),
     quantum_confidence |-> ParseFloat(o.quantum_confidence)]

JsonDump(history) == [i \in 1..Len(history) |-> JsonObject(history[i])]
JsonLoad(text) == [i \in 1..Len(text) |-> ParseObject(text[i])]

NoFile == [exists |-> FALSE, text |-> <<>>]

\* a variant that opens the file for appending
WriteLog_append(file, history) ==
    [exists |-> TRUE, text |-> file.text \o JsonDump(history)]

\* lines 188-189: open(filename, 'w') truncates, json.dump writes it all
WriteLog(file, history) == [exists |-> TRUE, text |-> JsonDump(history)]

\* lines 193-195
ReadLog(file, history) == IF file.exists THEN JsonLoad(file.text) ELSE history

----------------------------------------------------------------------------
(* Inputs and outcomes of the calls.                                       *)

Files == {"verification_log.json"}

\* the samples submitted: <<metal_type, weight, purity>>
Samples == { <<1, Fx(100000), Fx(999)>>, <<2, Fx(50500), Fx(900)>> }
SensorArgs == {None, "ndarray"}

Analysis(density, purity, e, t, n) ==
    [density |-> density, purity |-> purity, ai_embedded_efficiency |-> e,
     thermal_stability |-> t, neural_interface_strength |-> n]

Raises(text) == [raises |-> TRUE, text |-> text]
Returns(value) == [raises |-> FALSE, value |-> value]

\* what analyze_material_properties of the absent library may do: raise,
\* report with full confidence a reading of silver of purity 0.9 (which
\* matches the second sample and contradicts the first), or return a
\* dictionary lacking keys
AnalyzerOutcomes ==
    { Raises("analyzer failure"),
      Returns(Analysis(SILVER_DENSITY, Fx(900), Fx(1000), Fx(1000), Fx(1000))),
      Returns([density |-> GOLD_DENSITY, purity |-> Fx(999),
               ai_embedded_efficiency |-> Fx(900)]) }

\* what interface.quantum_compute of the absent library may do: raise,
\* report stability 0.8 or 0.5, or return a dictionary lacking "result"
QuantumOutcomes ==
    { Raises("quantum failure"),
      Returns([result |-> [stability |-> Fx(800)],
               blackwell_accelerated |-> TRUE]),
      Returns([result |-> [stability |-> Fx(500)],
               blackwell_accelerated |-> TRUE]),
      Returns([blackwell_accelerated |-> FALSE]) }

\* the outcome given for a library call that the branch taken never makes
NotCalled == Raises("not called")

\* line 98, line 103: the analyzer is called when it is present and there
\* is sensor data, given or generated
AnalyzerOutcomesFor(analyzer, numpy, sensor_arg) ==
    IF analyzer # None /\ (sensor_arg # None \/ numpy)
    THEN AnalyzerOutcomes ELSE {NotCalled}

\* line 131, line 139
QuantumOutcomesFor(simulator, iface) ==
    IF simulator # None /\ iface # None THEN QuantumOutcomes ELSE {NotCalled}

----------------------------------------------------------------------------
(* The state machine.                                                      *)

Self == [interface |-> interface, quantum_simulator |-> quantum_simulator,
         material_analyzer |-> material_analyzer]

NoCall == [op |-> "none"]

\* the state after GodAIVerifier(connection_params)
Init ==
    /\ NOVA_AVAILABLE \in BOOLEAN
    /\ \E failAt \in FailPoints :
          LET s == Construct(NOVA_AVAILABLE, failAt)
          IN  /\ interface = s.interface
              /\ quantum_simulator = s.quantum_simulator
              /\ material_analyzer = s.material_analyzer
    /\ verification_history = <<>>
    /\ disk = [f \in Files |-> NoFile]
    /\ saved = [f \in Files |-> <<>>]
    /\ now = 0
    /\ calls = 0
    /\ frame = NoCall

Tick ==
    /\ now < MaxClock
    /\ now' = now + 1
    /\ UNCHANGED <<NOVA_AVAILABLE, interface,
                   quantum_simulator, material_analyzer,
                   verification_history, disk, saved, calls, frame>>

verify_metal_properties(metal_type, weight, purity, sensor_arg, aout, qout) ==
    /\ calls < MaxCalls
    /\ LET out == VerifyMetalProperties(Self, NUMPY_AVAILABLE,
                                        verification_history, metal_type,
                                        weight, purity, sensor_arg, aout,
                                        qout, now)
       IN  /\ verification_history' = out.history
           /\ frame' = [op |-> "verify_metal_properties",
                        result |-> out.result,
                        raised |-> out.raised,
                        locals |-> out.locals]
    /\ calls' = calls + 1
    /\ UNCHANGED <<NOVA_AVAILABLE, interface,
                   quantum_simulator, material_analyzer, disk, saved, now>>

\* line 184: the value returned
GetVerificationHistory(history) == history

\* a read: no field changes
get_verification_history ==
    /\ GetVerificationHistory(verification_history) = verification_history
    /\ UNCHANGED vars

save_verification_log(filename) ==
    /\ disk' = [disk EXCEPT
                    ![filename] = WriteLog(disk[filename], verification_history)]
    /\ saved' = [saved EXCEPT ![filename] = verification_history]
    /\ UNCHANGED <<NOVA_AVAILABLE, interface,
                   quantum_simulator, material_analyzer,
                   verification_history, now, calls, frame>>

load_verification_log(filename) ==
    /\ verification_history' = ReadLog(disk[filename], verification_history)
    /\ UNCHANGED <<NOVA_AVAILABLE, interface,
                   quantum_simulator, material_analyzer, disk, saved, now,
                   calls, frame>>

Verify ==
    \E sample \in Samples, sensor_arg \in SensorArgs :
      \E aout \in AnalyzerOutcomesFor(material_analyzer, NUMPY_AVAILABLE,
                                       sensor_arg),
         qout \in QuantumOutcomesFor(quantum_simulator, interface) :
        verify_metal_properties(sample[1], sample[2], sample[3], sensor_arg,
                                aout, qout)

Save == \E filename \in Files : save_verification_log(filename)

Load == \E filename \in Files : load_verification_log(filename)

Next ==
    \/ Tick
    \/ Verify
    \/ get_verification_history
    \/ Save
    \/ Load

Spec == Init /\ [][Next]_vars

----------------------------------------------------------------------------
(* Properties.                                                             *)

\* the records of the log
Logged == { verification_history[i] : i \in 1..Len(verification_history) }

VerifyReturned == frame.op = "verify_metal_properties"

\* the record returned by the last verify_metal_properties call, if it
\* completed without an exception
Completed == IF VerifyReturned /\ ~frame.raised THEN {frame.result} ELSE {}

\* the record returned by the last verify_metal_properties call
Returned == IF VerifyReturned THEN {frame.result} ELSE {}

\* C1: every record returned by a call that completed without an exception,
\* and every record of verification_history, has
\* confidence = 0.6 * ai_confidence + 0.4 * quantum_confidence.
C1_WeightedAverage ==
    \A r \in Completed \cup Logged :
        10 * r.confidence = 6 * r.ai_confidence + 4 * r.quantum_confidence

\* a call through the real analyzer and simulator completed and was logged
C1_Witness ==
    /\ VerifyReturned /\ ~frame.raised /\ frame.locals.analyzed
    /\ quantum_simulator # None
    /\ frame.result \in Logged
    /\ frame.result.ai_confidence # frame.result.quantum_confidence

\* C2: in every record of a completed call, verified is true exactly when
\* confidence is strictly greater than 0.8.
C2_StrictThreshold ==
    \A r \in Completed \cup Logged :
        r.verified <=> (r.confidence > Fx(800))

\* a completed call with confidence exactly 0.8, and one above it in the log
C2_Witness ==
    /\ VerifyReturned /\ ~frame.raised
    /\ frame.result.confidence = Fx(800)
    /\ \E r \in Logged : r.confidence > Fx(800)

\* C3: when the analyzer ran and its reading contradicts the claimed
\* sample (density off by 1.0 or more, or purity off by 0.05 or more), the
\* record of that call is not verified.
C3_MismatchNotVerified ==
    \A r \in Completed :
        (/\ frame.locals.analyzed
         /\ \/ Abs(r.ai_analysis["density"]
                   - (IF r.metal_type = 1 THEN Fx(19300) ELSE Fx(10500)))
                   >= Fx(1000)
            \/ Abs(r.ai_analysis["purity"] - r.purity) >= Fx(50))
        => ~r.verified

\* C4: in every record returned and every record of the log, verified,
\* blockchain_ready and a non-empty verification_id go together; the
\* identifier of a verified record is the digest of
\* str(metal_type) + str(weight) + str(purity) + timestamp.
C4_FlagsAgree ==
    \A r \in Returned \cup Logged :
        /\ r.verified <=> r.blockchain_ready
        /\ r.verified <=> (r.verification_id # "")
        /\ r.verified =>
               r.verification_id =
                   Sha256Hex(NatStr(r.metal_type) \o FloatStr(r.weight)
                             \o FloatStr(r.purity) \o r.timestamp)

\* the log holds a verified and an unverified record
C4_Witness ==
    /\ \E r \in Logged : r.verified /\ r.verification_id # ""
    /\ \E r \in Logged : ~r.verified

\* C5: a verify_metal_properties call in which the analysis or the quantum
\* computation raised returns a record with the exception text under
\* "error", verified false, confidence 0.0, empty verification_id and
\* blockchain_ready false, and leaves verification_history unchanged.
C5_ErrorRecord ==
    [][(calls' = calls + 1 /\ frame'.raised) =>
          /\ "error" \in DOMAIN frame'.result
          /\ frame'.result.error \in
                 {"analyzer failure", "quantum failure",
                  "'thermal_stability'", "'result'"}
          /\ ~frame'.result.verified
          /\ frame'.result.confidence = 0
          /\ frame'.result.verification_id = ""
          /\ ~frame'.result.blockchain_ready
          /\ verification_history' = verification_history]_vars

\* the quantum computation failed after a successful analysis, with a
\* record already in the log
C5_Witness ==
    /\ VerifyReturned /\ frame.raised
    /\ "ai_confidence" \in DOMAIN frame.result
    /\ frame.result.error = "quantum failure"
    /\ Len(verification_history) >= 1

\* C6: no two verified records of the log share a verification_id.
C6_UniqueIdentifiers ==
    \A i, j \in 1..Len(verification_history) :
        (/\ i # j
         /\ verification_history[i].verified
         /\ verification_history[j].verified)
        => verification_history[i].verification_id
               # verification_history[j].verification_id

\* C7: with no analyzer and no simulator, every call returns
\* ai_confidence 0.85, quantum_confidence 0.9, confidence 0.87 and verified
\* true, whatever the sample.
C7_MockVerdict ==
    (material_analyzer = None /\ quantum_simulator = None) =>
        \A r \in Returned \cup Logged :
            /\ r.ai_confidence = Fx(850)
            /\ r.quantum_confidence = Fx(900)
            /\ r.confidence = Fx(870)
            /\ r.verified

\* without NOVA-BLOCKS, both samples have been verified
C7_Witness ==
    /\ ~NOVA_AVAILABLE
    /\ Len(verification_history) = 2
    /\ verification_history[1].metal_type # verification_history[2].metal_type
    /\ verification_history[1].purity # verification_history[2].purity

\* C8: a verify_metal_properties call that completes appends its record at
\* the end of the history returned by get_verification_history and leaves
\* the earlier records as they were; a call that raises leaves the history
\* as it was.
C8_AppendOnly ==
    [][calls' = calls + 1 =>
          GetVerificationHistory(verification_history') =
              IF frame'.raised
              THEN verification_history
              ELSE Append(verification_history, frame'.result)]_vars

\* two different records were logged one after the other
C8_Witness ==
    /\ calls = 2
    /\ Len(GetVerificationHistory(verification_history)) = 2
    /\ verification_history[1] # verification_history[2]
    /\ verification_history[2] = frame.result

\* C9: a load of a file that exists sets the history to exactly the history
\* that the last save of that file held, whatever was verified in between;
\* a load of a file that does not exist changes nothing.
C9_SaveLoadRoundTrip ==
    [][\A f \in Files :
          load_verification_log(f) =>
              verification_history' =
                  IF disk[f].exists THEN saved[f] ELSE verification_history]_vars

\* two calls completed, yet the history is the one-record history saved
\* before the second call: a load discarded the second record
C9_Witness ==
    \E f \in Files :
        /\ disk[f].exists
        /\ Len(saved[f]) = 1
        /\ verification_history = saved[f]
        /\ calls = 2
        /\ VerifyReturned /\ ~frame.raised
        /\ frame.result \notin Logged

\* C10: a simulator implies an interface and an analyzer implies a
\* simulator, so the quantum branch never finds the interface missing.
C10_InitOrder ==
    /\ quantum_simulator # None => interface # None
    /\ material_analyzer # None => quantum_simulator # None
    /\ \A r \in Returned :
           "error" \in DOMAIN r =>
               r.error # "'NoneType' object has no attribute 'quantum_compute'"

\* the analyzer constructor failed, and the quantum branch then ran with
\* the interface and the simulator alone
C10_Witness ==
    /\ quantum_simulator # None
    /\ material_analyzer = None
    /\ VerifyReturned /\ ~frame.raised
    /\ frame.result.quantum_confidence = Fx(500)

====
